---- MODULE Spec2Model ----
(***************************************************************************)
(* Model of dashboard.py: the Streamlit script that loads all_data.csv,   *)
(* filters it by the sidebar widgets and computes the summaries shown in  *)
(* the dashboard.  One run of the script is the sequence                  *)
(*   Rerun (widgets + filter) ; ShowWarning | Summarize ; SeasonSection ; *)
(*   DayTypeSection ; WeatherSection                                      *)
(* and every widget interaction starts the next run from the top.         *)
(*                                                                         *)
(* Representation.  A DataFrame is a sequence of rows (records); the      *)
(* column "index" holds the pandas index label of the row.  Dates are     *)
(* day numbers.  A missing label (object column) is NaN; a float cell is  *)
(* <<numerator, denominator>> and the missing float is NaNf.              *)
(***************************************************************************)
EXTENDS Integers, Sequences, FiniteSets, TLC

\* ------------------------------------------------------------------ bounds
MaxLen == 3      \* the most rows all_data.csv has

\* ------------------------------------------------------- pandas primitives
NaN == "NaN"
NaNf == <<>>

Min(S) == CHOOSE x \in S : \A y \in S : x <= y
Max(S) == CHOOSE x \in S : \A y \in S : x >= y

RECURSIVE SeqSum(_)
SeqSum(s) == IF s = <<>> THEN 0 ELSE Head(s) + SeqSum(Tail(s))

\* the values of column cnt of a frame, in row order
Cnt(df) == [k \in 1..Len(df) |-> df[k].cnt]

\* Series.sum(): the sum of the non-missing values (0 for none)
sum(df) == SeqSum(Cnt(df))

\* Series.mean(): sum / count, NaN for an empty group
mean(df) == IF df = <<>> THEN NaNf ELSE <<sum(df), Len(df)>>

\* Series.max() / Series.min(): NaN for an empty group
max(df) == IF df = <<>> THEN NaNf ELSE <<Max({df[k].cnt : k \in 1..Len(df)}), 1>>
min(df) == IF df = <<>> THEN NaNf ELSE <<Min({df[k].cnt : k \in 1..Len(df)}), 1>>

\* comparison of two non-missing float cells
FloatLess(a, b) == a[1] * b[2] < b[1] * a[2]

\* the sorted sequence of a finite set of integers (group keys are sorted)
RECURSIVE SortedSeq(_)
SortedSeq(S) == IF S = {} THEN <<>> ELSE <<Min(S)>> \o SortedSeq(S \ {Min(S)})

\* df.loc[label]: the row whose index label is `label`
loc(df, label) == df[CHOOSE k \in 1..Len(df) : df[k].index = label]

\* faulty idxmax: the index label of the last occurrence of the maximum
idxmax_last(df) ==
    df[CHOOSE k \in 1..Len(df) :
          /\ \A j \in 1..Len(df) : df[j].cnt <= df[k].cnt
          /\ \A j \in (k+1)..Len(df) : df[j].cnt < df[k].cnt].index
\* Series.idxmax(): the index label of the first occurrence of the maximum
idxmax(df) ==
    df[CHOOSE k \in 1..Len(df) :
          /\ \A j \in 1..Len(df) : df[j].cnt <= df[k].cnt
          /\ \A j \in 1..(k-1) : df[j].cnt < df[k].cnt].index

\* Series.idxmin(): the index label of the first occurrence of the minimum
idxmin(df) ==
    df[CHOOSE k \in 1..Len(df) :
          /\ \A j \in 1..Len(df) : df[j].cnt >= df[k].cnt
          /\ \A j \in 1..(k-1) : df[j].cnt > df[k].cnt].index

\* ------------------------------------------------------------ label tables
SEASON_LABELS == (1 :> "Semi") @@ (2 :> "Panas") @@ (3 :> "Gugur") @@ (4 :> "Dingin")
WEATHER_LABELS ==
    (1 :> "Cerah") @@ (2 :> "Berkabut") @@ (3 :> "Hujan/Salju") @@ (4 :> "Hujan Lebat")
DAY_TYPE_LABELS == (0 :> "Weekend/Holiday") @@ (1 :> "Weekday")

\* dict.values()
values(labels) == {labels[c] : c \in DOMAIN labels}

\* Series.map(dict) on one cell: a code that is no key of the dict maps to NaN
map(labels, code) == IF code \in DOMAIN labels THEN labels[code] ELSE NaN

\* ---------------------------------------------------------------- load_data
\* the row at position i of all_data.csv, decorated; read_csv gives the frame
\* a RangeIndex and nothing sorts or validates the rows
load_row(row, i) ==
    [index |-> i,
     dteday |-> row.dteday, hr |-> row.hr, season |-> row.season,
     weathersit |-> row.weathersit, workingday |-> row.workingday, cnt |-> row.cnt,
     season_label |-> map(SEASON_LABELS, row.season),
     weather_label |-> map(WEATHER_LABELS, row.weathersit),
     day_type |-> map(DAY_TYPE_LABELS, row.workingday)]

load_data(csv) == [i \in 1..Len(csv) |-> load_row(csv[i], i)]

\* a row that is no row of any frame: the value of max_day / min_day before
\* the script has assigned them
NoRow ==
    [index |-> 0, dteday |-> 0, hr |-> 0, season |-> 0, weathersit |-> 0,
     workingday |-> 0, cnt |-> 0, season_label |-> NaN, weather_label |-> NaN,
     day_type |-> NaN]

\* ------------------------------------------------------------ filter engine
\* faulty mask: the end date excluded
mask_open_end(r, sd, ed, ss, sdt) ==
    /\ r.dteday >= sd
    /\ r.dteday < ed
    /\ r.season_label \in ss
    /\ r.day_type \in sdt
\* one element of the boolean mask of lines 86-91
mask(r, sd, ed, ss, sdt) ==
    /\ r.dteday >= sd
    /\ r.dteday <= ed
    /\ r.season_label \in ss
    /\ r.day_type \in sdt

\* all_df[mask]: the rows whose mask element is True, index labels kept
filter(df, sd, ed, ss, sdt) == SelectSeq(df, LAMBDA r : mask(r, sd, ed, ss, sdt))

\* faulty emptiness test: never true
empty_never(df) == FALSE
\* DataFrame.empty
empty(df) == Len(df) = 0

\* ------------------------------------------------------------ daily summary
\* the rows of df dated d
on_day(df, d) == SelectSeq(df, LAMBDA r : r.dteday = d)

\* the calendar days of the rows of df
days(df) == {df[k].dteday : k \in 1..Len(df)}

\* faulty resample: the bin of the last day left out
create_daily_summary_short(df) ==
    IF df = <<>> THEN <<>>
    ELSE [k \in 1..(Max(days(df)) - Min(days(df))) |->
            LET d == Min(days(df)) + k - 1
            IN  [dteday |-> d, sum |-> sum(on_day(df, d)),
                 mean |-> mean(on_day(df, d)), max |-> max(on_day(df, d))]]
\* resample('D', on='dteday').agg(sum, mean, max).reset_index(): one bin per
\* calendar day from the first to the last day of df, empty bins included
create_daily_summary(df) ==
    IF df = <<>> THEN <<>>
    ELSE [k \in 1..(Max(days(df)) - Min(days(df)) + 1) |->
            LET d == Min(days(df)) + k - 1
            IN  [dteday |-> d, sum |-> sum(on_day(df, d)),
                 mean |-> mean(on_day(df, d)), max |-> max(on_day(df, d))]]

\* daily_summary['cnt']['sum'].sum(), the "Total Penyewaan" metric
total_penyewaan(daily) == SeqSum([k \in 1..Len(daily) |-> daily[k].sum])

\* daily_summary['cnt']['max'].max(), the "Puncak Tertinggi" metric (NaN skipped)
puncak_tertinggi(daily) ==
    LET present == {daily[k].max[1] : k \in {j \in 1..Len(daily) : daily[j].max # NaNf}}
    IN  IF present = {} THEN NaNf ELSE <<Max(present), 1>>

\* ----------------------------------------------------------- season summary
\* the rows of one groupby('season') group, in frame order
season_group(df, s) == SelectSeq(df, LAMBDA r : r.season = s)

\* the sorted keys of groupby('season')
season_keys(df) == SortedSeq({df[k].season : k \in 1..Len(df)})

\* the sorted keys of groupby(['season', 'season_label']): a group whose label
\* is missing is dropped (dropna), and the label is a function of the code
season_label_keys(df) ==
    SortedSeq({df[k].season : k \in {j \in 1..Len(df) : df[j].season_label # NaN}})

\* lines 160-168: groupby(['season','season_label']).agg(...).reset_index()
season_agg(df) ==
    [k \in 1..Len(season_label_keys(df)) |->
        LET s == season_label_keys(df)[k]
            g == season_group(df, s)
        IN  [season |-> s, season_label |-> g[1].season_label,
             cnt_max |-> max(g)[1], cnt_min |-> min(g)[1],
             dteday_first |-> g[1].dteday, dteday_last |-> g[Len(g)].dteday,
             hr_first |-> g[1].hr, hr_last |-> g[Len(g)].hr]]

\* faulty max_days: idxmax over the whole frame instead of per season
max_days_global(df) ==
    [k \in 1..Len(season_keys(df)) |->
        LET row == loc(df, idxmax(df))
        IN  [season |-> season_keys(df)[k], dteday_max |-> row.dteday,
             hr_max |-> row.hr, cnt_max_actual |-> row.cnt]]
\* line 171: main_df.loc[main_df.groupby('season')['cnt'].idxmax()], then the
\* projection and renaming of lines 175-179
max_days(df) ==
    [k \in 1..Len(season_keys(df)) |->
        LET row == loc(df, idxmax(season_group(df, season_keys(df)[k])))
        IN  [season |-> row.season, dteday_max |-> row.dteday,
             hr_max |-> row.hr, cnt_max_actual |-> row.cnt]]

\* line 172 and lines 182-186
min_days(df) ==
    [k \in 1..Len(season_keys(df)) |->
        LET row == loc(df, idxmin(season_group(df, season_keys(df)[k])))
        IN  [season |-> row.season, dteday_min |-> row.dteday,
             hr_min |-> row.hr, cnt_min_actual |-> row.cnt]]

\* DataFrame.merge(right, on='season'): the inner join, left order kept
RECURSIVE merge(_, _)
merge(left, right) ==
    IF left = <<>> THEN <<>>
    ELSE LET l == Head(left)
             matches == SelectSeq(right, LAMBDA r : r.season = l.season)
         IN  [k \in 1..Len(matches) |-> l @@ matches[k]] \o merge(Tail(left), right)

\* lines 160-188
season_summary_of(df) == merge(merge(season_agg(df), max_days(df)), min_days(df))

\* ----------------------------------------------------- weekday vs weekend
\* the sorted keys of groupby('day_type'): the labels in string order, a
\* missing label dropped
day_type_keys(df) ==
    SelectSeq(<<"Weekday", "Weekend/Holiday">>,
              LAMBDA t : \E k \in 1..Len(df) : df[k].day_type = t)

\* lines 279-282
weekday_summary_of(df) ==
    [k \in 1..Len(day_type_keys(df)) |->
        LET g == SelectSeq(df, LAMBDA r : r.day_type = day_type_keys(df)[k])
        IN  [day_type |-> day_type_keys(df)[k], total |-> sum(g),
             average |-> mean(g), count |-> Len(g)]]

\* the group of one (hr, day_type) key
hour_type_group(df, h, t) == SelectSeq(df, LAMBDA r : r.hr = h /\ r.day_type = t)

\* the rows of hourly_pattern for hour h: one per day type observed at h
hour_rows(df, h) ==
    LET ts == SelectSeq(<<"Weekday", "Weekend/Holiday">>,
                        LAMBDA t : hour_type_group(df, h, t) # <<>>)
    IN  [k \in 1..Len(ts) |->
            [hr |-> h, day_type |-> ts[k], cnt |-> mean(hour_type_group(df, h, ts[k]))]]

RECURSIVE concat_hours(_, _)
concat_hours(df, hs) ==
    IF hs = <<>> THEN <<>> ELSE hour_rows(df, Head(hs)) \o concat_hours(df, Tail(hs))

\* line 284: groupby(["hr","day_type"])["cnt"].mean().reset_index(), the keys
\* sorted by hour and then by label
hourly_pattern_of(df) == concat_hours(df, SortedSeq({df[k].hr : k \in 1..Len(df)}))

\* lines 339-340: the rows of hourly_pattern whose day_type equals the literal
weekday_peak_of(hourly) == SelectSeq(hourly, LAMBDA r : r.day_type = "Weekday")
weekend_peak_of(hourly) == SelectSeq(hourly, LAMBDA r : r.day_type = "Weekend")

\* peak.loc[peak['cnt'].idxmax()]: the first row holding the largest mean
peak_data(peak) ==
    peak[CHOOSE k \in 1..Len(peak) :
            /\ \A j \in 1..Len(peak) : ~FloatLess(peak[k].cnt, peak[j].cnt)
            /\ \A j \in 1..(k-1) : FloatLess(peak[j].cnt, peak[k].cnt)]

\* int(x) of a non-negative float
int(x) == x[1] \div x[2]

\* lines 342-358: the annotations drawn on the hourly chart
peak_annotations(hourly) ==
    (IF weekday_peak_of(hourly) # <<>>
        THEN {[text |-> "Puncak Weekday",
               hr |-> peak_data(weekday_peak_of(hourly)).hr,
               cnt |-> int(peak_data(weekday_peak_of(hourly)).cnt)]}
        ELSE {})
    \cup
    (IF weekend_peak_of(hourly) # <<>>
        THEN {[text |-> "Puncak Weekend",
               hr |-> peak_data(weekend_peak_of(hourly)).hr,
               cnt |-> int(peak_data(weekend_peak_of(hourly)).cnt)]}
        ELSE {})

\* --------------------------------------------------------- weather comparison
\* main_df[main_df['weathersit'].isin([1, 2])]
clear_or_misty(df) == SelectSeq(df, LAMBDA r : r.weathersit \in {1, 2})

\* the group of one (hr, weather_label) key
hour_weather_group(df, h, w) == SelectSeq(df, LAMBDA r : r.hr = h /\ r.weather_label = w)

\* faulty weather comparison: the isin([1, 2]) selection left out
weather_comparison_all(df) ==
    [p \in {df[k].hr : k \in 1..Len(df)}
           \X {df[k].weather_label : k \in 1..Len(df)} |->
        mean(hour_weather_group(df, p[1], p[2]))]
\* line 366: groupby(['hr','weather_label'])['cnt'].mean().unstack(): a table
\* indexed by the hours and the labels that occur, a cell of a pair with no
\* observation being the missing value
weather_comparison_of(df) ==
    LET g == clear_or_misty(df)
    IN  [p \in {g[k].hr : k \in 1..Len(g)} \X {g[k].weather_label : k \in 1..Len(g)} |->
            mean(hour_weather_group(g, p[1], p[2]))]

\* ------------------------------------------------------------------- state
VARIABLES
    all_df,              \* the Record Store: load_data() of all_data.csv
    pc,                  \* the position of the script in the current run
    start_date,          \* the values of the sidebar widgets
    end_date,
    selected_seasons,
    selected_day_types,
    main_df,             \* the Filtered View
    daily_summary,
    max_day,
    min_day,
    season_summary,
    weekday_summary,
    hourly_pattern,
    annotations,         \* the peak highlights of the hourly chart
    weather_comparison,
    page                 \* the elements the run has put on the page, in order

vars ==
    <<all_df, pc, start_date, end_date, selected_seasons, selected_day_types, main_df,
      daily_summary, max_day, min_day, season_summary, weekday_summary, hourly_pattern,
      annotations, weather_comparison, page>>

widgets == <<start_date, end_date, selected_seasons, selected_day_types>>

summaries ==
    <<daily_summary, max_day, min_day, season_summary, weekday_summary, hourly_pattern,
      annotations, weather_comparison>>

\* lines 51-52
min_date == Min(days(all_df))
max_date == Max(days(all_df))

\* every sequence over S of length 1..n
SeqsUpTo(S, n) == UNION {[1..k -> S] : k \in 1..n}

Row(d, h, s, w, wd, c) ==
    [dteday |-> d, hr |-> h, season |-> s, weathersit |-> w, workingday |-> wd, cnt |-> c]

\* the selections of the two multiselect widgets that are tried: the default
\* (every option) and the subsets of two of the season options
SeasonSelections == {values(SEASON_LABELS)} \cup SUBSET {"Semi", "Panas"}
DayTypeSelections == SUBSET values(DAY_TYPE_LABELS)

\* the state after line 46 with `csv` the rows of all_data.csv
InitWith(csvs) ==
    /\ all_df \in {load_data(csv) : csv \in csvs}
    /\ pc = "ready"
    /\ start_date = 0
    /\ end_date = 0
    /\ selected_seasons = {}
    /\ selected_day_types = {}
    /\ main_df = <<>>
    /\ daily_summary = <<>>
    /\ max_day = NoRow
    /\ min_day = NoRow
    /\ season_summary = <<>>
    /\ weekday_summary = <<>>
    /\ hourly_pattern = <<>>
    /\ annotations = {}
    /\ weather_comparison = <<>>
    /\ page = <<>>

\* lines 54-91: one run of the script up to the filter, with the widgets
\* holding (sd, ed, ss, sdt); nothing of the previous run survives a rerun
Rerun(sd, ed, ss, sdt) ==
    /\ start_date' = sd
    /\ end_date' = ed
    /\ selected_seasons' = ss
    /\ selected_day_types' = sdt
    /\ main_df' = filter(all_df, sd, ed, ss, sdt)
    /\ daily_summary' = <<>>
    /\ max_day' = NoRow
    /\ min_day' = NoRow
    /\ season_summary' = <<>>
    /\ weekday_summary' = <<>>
    /\ hourly_pattern' = <<>>
    /\ annotations' = {}
    /\ weather_comparison' = <<>>
    /\ page' = <<>>
    /\ pc' = "filtered"
    /\ UNCHANGED all_df

\* the first run: every widget holds its default (lines 67, 74, 80)
FirstRun ==
    /\ pc = "ready"
    /\ Rerun(min_date, max_date, values(SEASON_LABELS), values(DAY_TYPE_LABELS))

\* lines 63-68: the user picks two dates within [min_date, max_date] and the
\* script runs again; it compares whatever pair the widget returns
SetDateRange(sd, ed) ==
    /\ pc \in {"nodata", "done"}
    /\ Rerun(sd, ed, selected_seasons, selected_day_types)

\* lines 71-75
SetSeasons(ss) ==
    /\ pc \in {"nodata", "done"}
    /\ Rerun(start_date, end_date, ss, selected_day_types)

\* lines 77-81
SetDayTypes(sdt) ==
    /\ pc \in {"nodata", "done"}
    /\ Rerun(start_date, end_date, selected_seasons, sdt)

\* lines 94-95
ShowWarning ==
    /\ pc = "filtered"
    /\ empty(main_df)
    /\ page' = Append(page, "warning")
    /\ pc' = "nodata"
    /\ UNCHANGED <<all_df, widgets, main_df, summaries>>

\* lines 96-97
DailySummary ==
    /\ pc = "filtered"
    /\ ~empty(main_df)
    /\ daily_summary' = create_daily_summary(main_df)
    /\ pc' = "summarized"
    /\ UNCHANGED <<all_df, widgets, main_df, max_day, min_day, season_summary,
                   weekday_summary, hourly_pattern, annotations, weather_comparison, page>>

\* lines 98-154: the extremes, then the metrics and the daily trend
ExtremesLocator ==
    /\ pc = "summarized"
    /\ max_day' = loc(main_df, idxmax(main_df))
    /\ min_day' = loc(main_df, idxmin(main_df))
    /\ page' = page \o <<[metric |-> "Total Penyewaan",
                          value |-> total_penyewaan(daily_summary)],
                         [metric |-> "Puncak Tertinggi",
                          value |-> puncak_tertinggi(daily_summary)]>>
    /\ pc' = "located"
    /\ UNCHANGED <<all_df, widgets, main_df, daily_summary, season_summary,
                   weekday_summary, hourly_pattern, annotations, weather_comparison>>

\* lines 156-272
SeasonSection ==
    /\ pc = "located"
    /\ season_summary' = season_summary_of(main_df)
    /\ pc' = "seasons"
    /\ UNCHANGED <<all_df, widgets, main_df, daily_summary, max_day, min_day,
                   weekday_summary, hourly_pattern, annotations, weather_comparison, page>>

\* lines 274-360
DayTypeSection ==
    /\ pc = "seasons"
    /\ weekday_summary' = weekday_summary_of(main_df)
    /\ hourly_pattern' = hourly_pattern_of(main_df)
    /\ annotations' = peak_annotations(hourly_pattern_of(main_df))
    /\ pc' = "daytypes"
    /\ UNCHANGED <<all_df, widgets, main_df, daily_summary, max_day, min_day,
                   season_summary, weather_comparison, page>>

\* lines 362-405: the weather comparison, then the records and the footer
WeatherSection ==
    /\ pc = "daytypes"
    /\ weather_comparison' = weather_comparison_of(main_df)
    /\ page' = page \o <<[metric |-> "Hari Terbaik", value |-> <<max_day.cnt, 1>>],
                         [metric |-> "Hari Terburuk", value |-> <<min_day.cnt, 1>>]>>
    /\ pc' = "done"
    /\ UNCHANGED <<all_df, widgets, main_df, daily_summary, max_day, min_day,
                   season_summary, weekday_summary, hourly_pattern, annotations>>

Next ==
    \/ FirstRun
    \/ \E sd \in min_date..max_date, ed \in min_date..max_date : SetDateRange(sd, ed)
    \/ \E ss \in SeasonSelections : SetSeasons(ss)
    \/ \E sdt \in DayTypeSelections : SetDayTypes(sdt)
    \/ ShowWarning
    \/ DailySummary
    \/ ExtremesLocator
    \/ SeasonSection
    \/ DayTypeSection
    \/ WeatherSection

\* ------------------------------------------------------- all_data.csv samples
\* Each specification starts from the files of 1..MaxLen rows over one sample
\* of rows; the rows of a sample differ in the columns its properties read.

\* days 1..2, both seasons, both day types
FilterRows == {Row(d, 0, s, 1, wd, 1) : d \in {1, 2}, s \in {1, 2}, wd \in {0, 1}}
InitFilter == InitWith(SeqsUpTo(FilterRows, MaxLen))
SpecFilter == InitFilter /\ [][Next]_vars

\* days 1..3 of which day 2 is a weekend day, two counts
DailyRows == {Row(d, 0, 1, 1, IF d = 2 THEN 0 ELSE 1, c) : d \in 1..3, c \in {1, 2}}
InitDaily == InitWith(SeqsUpTo(DailyRows, MaxLen))
SpecDaily == InitDaily /\ [][Next]_vars

\* three time slots (two hours of day 1, one of day 2), two counts; day 1 lies
\* in season 1, day 2 in season 1 or 2
SeasonRows ==
    {Row(1, h, 1, 1, 1, c) : h \in {0, 1}, c \in {1, 2}}
        \cup {Row(2, 0, s, 1, 1, c) : s \in {1, 2}, c \in {1, 2}}
\* the three-record example: counts 10 and 50 in season 1, 5 in season 2
ExampleCsv == <<Row(1, 0, 1, 1, 1, 10), Row(2, 0, 1, 1, 1, 50), Row(3, 0, 2, 1, 1, 5)>>
InitSeason == InitWith(SeqsUpTo(SeasonRows, MaxLen) \cup {ExampleCsv})
SpecSeason == InitSeason /\ [][Next]_vars

\* one day, two hours, clear or misty with two counts, light rain
WeatherRows ==
    {Row(1, h, 1, w, 1, c) : h \in {0, 1}, w \in {1, 2}, c \in {1, 2}}
        \cup {Row(1, h, 1, 3, 1, 2) : h \in {0, 1}}
InitWeather == InitWith(SeqsUpTo(WeatherRows, MaxLen))
SpecWeather == InitWeather /\ [][Next]_vars

\* one day, two hours, both day types, two counts
PeakRows == {Row(1, h, 1, 1, wd, c) : h \in {0, 1}, wd \in {0, 1}, c \in {1, 2}}
InitPeak == InitWith(SeqsUpTo(PeakRows, MaxLen))
SpecPeak == InitPeak /\ [][Next]_vars

\* one day, codes inside and outside the label tables
CodeRows == {Row(1, 0, s, w, wd, 1) : s \in {1, 5}, w \in {1, 5}, wd \in {1, 2}}
InitCodes == InitWith(SeqsUpTo(CodeRows, MaxLen))
SpecCodes == InitCodes /\ [][Next]_vars

\* ================================================================ properties
Rows(df) == {df[k] : k \in 1..Len(df)}
Computed(positions) == pc \in positions
AfterDaily == {"summarized", "located", "seasons", "daytypes", "done"}
AfterExtremes == {"located", "seasons", "daytypes", "done"}
AfterSeasons == {"seasons", "daytypes", "done"}
AfterDayTypes == {"daytypes", "done"}

\* a row passes the filter request held by the widgets
Passes(r) ==
    /\ start_date <= r.dteday
    /\ r.dteday <= end_date
    /\ r.season_label \in selected_seasons
    /\ r.day_type \in selected_day_types

\* C1: once a run has filtered, the Filtered View holds exactly the rows of
\* the Record Store that lie in [start_date, end_date] (both ends included)
\* and carry an allowed season label and an allowed day-type label, each once
\* and in the order of the Record Store.
C1_FilteredViewExact ==
    pc # "ready" =>
        /\ \A k \in 1..Len(main_df) :
              /\ main_df[k].index \in 1..Len(all_df)
              /\ main_df[k] = all_df[main_df[k].index]
              /\ Passes(main_df[k])
        /\ \A i \in 1..Len(all_df) :
              Passes(all_df[i]) => \E k \in 1..Len(main_df) : main_df[k].index = i
        /\ \A j, k \in 1..Len(main_df) : j < k => main_df[j].index < main_df[k].index

\* C1 witness: a view of two rows around a dropped one, one of them dated
\* exactly end_date and one exactly start_date
C1_Witness ==
    /\ pc = "filtered"
    /\ Len(all_df) = 3
    /\ Len(main_df) = 2
    /\ main_df[1].index = 1
    /\ main_df[2].index = 3
    /\ start_date < end_date
    /\ \E k \in 1..2 : main_df[k].dteday = end_date
    /\ \E k \in 1..2 : main_df[k].dteday = start_date

\* C2: a run whose Filtered View is empty can only show the warning: it ends
\* in the "no data" state with no summary computed and no extreme located;
\* every later position of a run, and every located extreme, has a non-empty
\* view.
C2_EmptyViewNoAggregation ==
    /\ (pc = "filtered" /\ main_df = <<>>) => (ENABLED ShowWarning /\ ~ENABLED DailySummary)
    /\ (pc # "ready" /\ main_df = <<>>) =>
          /\ pc \in {"filtered", "nodata"}
          /\ daily_summary = <<>> /\ season_summary = <<>> /\ weekday_summary = <<>>
          /\ hourly_pattern = <<>> /\ weather_comparison = <<>> /\ annotations = {}
          /\ max_day = NoRow /\ min_day = NoRow
          /\ page \in {<<>>, <<"warning">>}
    /\ pc = "nodata" => (main_df = <<>> /\ page = <<"warning">>)
    /\ (pc \in AfterDaily \/ max_day # NoRow \/ min_day # NoRow) => main_df # <<>>

\* C2 witness: the "no data" state of a run whose widgets allow no season
C2_Witness ==
    /\ pc = "nodata"
    /\ selected_seasons = {}
    /\ start_date = min_date /\ end_date = max_date
    /\ selected_day_types = values(DAY_TYPE_LABELS)

\* C9: a rerun whose date range has start_date > end_date is rejected: the
\* Filtered View of the run before it stays as it was.
C9_InvalidRangeRejected == [][start_date' > end_date' => main_df' = main_df]_vars

\* C3: the "Total Penyewaan" metric, the sum of the per-day sums of the Daily
\* Summary, equals the sum of cnt over the rows of the Filtered View.
C3_TotalIsSumOfView ==
    /\ Computed(AfterDaily) =>
          SeqSum([k \in 1..Len(daily_summary) |-> daily_summary[k].sum])
              = SeqSum([k \in 1..Len(main_df) |-> main_df[k].cnt])
    /\ Computed(AfterExtremes) =>
          page[1] = [metric |-> "Total Penyewaan",
                     value |-> SeqSum([k \in 1..Len(main_df) |-> main_df[k].cnt])]

\* C3 witness: a view with two rows on its first day, none on the next day
\* and one on the day after
C3_Witness ==
    /\ pc = "done"
    /\ Len(main_df) = 3
    /\ Len(daily_summary) = 3
    /\ daily_summary[1].sum = 3
    /\ daily_summary[2].sum = 0
    /\ daily_summary[3].sum = 2

\* C4: the Daily Summary has exactly one row per calendar day that has a row
\* in the Filtered View, and no row for any other day.
C4_OneRowPerDayPresent ==
    Computed(AfterDaily) =>
        /\ {daily_summary[k].dteday : k \in 1..Len(daily_summary)} = days(main_df)
        /\ Len(daily_summary) = Cardinality(days(main_df))

\* the rows of the Filtered View that lie in season s
InSeason(s) == {r \in Rows(main_df) : r.season = s}

\* C5: the Season Summary has exactly one row per season of the Filtered
\* View; its max (min) bounds the cnt of every row of that season, is the cnt
\* of one of them, and the reported (day, hour) of the max (min) is that of a
\* row of the season whose cnt is the max (min).  On the three-record example
\* filtered to "Semi": one row, max 50 on day 2, min 10 on day 1.
C5_SeasonSummaryExtremes ==
    Computed(AfterSeasons) =>
        /\ {season_summary[k].season : k \in 1..Len(season_summary)}
              = {r.season : r \in Rows(main_df)}
        /\ Len(season_summary) = Cardinality({r.season : r \in Rows(main_df)})
        /\ \A k \in 1..Len(season_summary) :
              LET row == season_summary[k]
              IN  /\ \A r \in InSeason(row.season) :
                        r.cnt <= row.cnt_max /\ r.cnt >= row.cnt_min
                  /\ row.cnt_max_actual = row.cnt_max
                  /\ row.cnt_min_actual = row.cnt_min
                  /\ \E r \in InSeason(row.season) :
                        /\ r.cnt = row.cnt_max
                        /\ r.dteday = row.dteday_max
                        /\ r.hr = row.hr_max
                  /\ \E r \in InSeason(row.season) :
                        /\ r.cnt = row.cnt_min
                        /\ r.dteday = row.dteday_min
                        /\ r.hr = row.hr_min
        /\ (all_df = load_data(ExampleCsv) /\ selected_seasons = {"Semi"}
              /\ main_df # <<>>
              /\ start_date = 1 /\ end_date = 3
              /\ selected_day_types = values(DAY_TYPE_LABELS)) =>
                 /\ Len(season_summary) = 1
                 /\ season_summary[1].season = 1
                 /\ season_summary[1].cnt_max_actual = 50
                 /\ season_summary[1].dteday_max = 2
                 /\ season_summary[1].cnt_min_actual = 10
                 /\ season_summary[1].dteday_min = 1

\* C5 witness: two seasons in the view, one of them with rows of different
\* counts at different times
C5_Witness ==
    /\ pc = "done"
    /\ Len(season_summary) = 2
    /\ \E k \in 1..2 :
          /\ season_summary[k].cnt_max > season_summary[k].cnt_min
          /\ <<season_summary[k].dteday_max, season_summary[k].hr_max>>
                # <<season_summary[k].dteday_min, season_summary[k].hr_min>>

\* row a is not later than row b: earlier day, or the same day and no later hour
NotLater(a, b) == a.dteday < b.dteday \/ (a.dteday = b.dteday /\ a.hr <= b.hr)

\* the rows of all_df are in chronological order
Chronological(df) == \A i, j \in 1..Len(df) : i < j => NotLater(df[i], df[j])

\* C6 as stated: among the rows that share the extreme cnt, the overall
\* max_day / min_day and the per-season argmax / argmin are the
\* chronologically earliest ones.
C6_ChronologicallyEarliest ==
    /\ Computed(AfterExtremes) =>
          /\ \A r \in Rows(main_df) : r.cnt = max_day.cnt => NotLater(max_day, r)
          /\ \A r \in Rows(main_df) : r.cnt = min_day.cnt => NotLater(min_day, r)
    /\ Computed(AfterSeasons) =>
          \A k \in 1..Len(season_summary) :
              LET row == season_summary[k]
              IN  /\ \A r \in InSeason(row.season) :
                        r.cnt = row.cnt_max =>
                            NotLater([dteday |-> row.dteday_max, hr |-> row.hr_max], r)
                  /\ \A r \in InSeason(row.season) :
                        r.cnt = row.cnt_min =>
                            NotLater([dteday |-> row.dteday_min, hr |-> row.hr_min], r)

\* the first row, in Record Store order, among those of S
First(S) == CHOOSE r \in S : \A q \in S : r.index <= q.index

\* C6 as amended: among the rows that share the extreme cnt, the overall
\* max_day / min_day and the per-season argmax / argmin are the first ones in
\* Record Store order; they are the chronologically earliest ones whenever
\* the Record Store is in chronological order.
C6_FirstInStoreOrder ==
    /\ Computed(AfterExtremes) =>
          /\ max_day \in Rows(main_df)
          /\ min_day \in Rows(main_df)
          /\ \A r \in Rows(main_df) : r.cnt <= max_day.cnt /\ r.cnt >= min_day.cnt
          /\ max_day = First({r \in Rows(main_df) : r.cnt = max_day.cnt})
          /\ min_day = First({r \in Rows(main_df) : r.cnt = min_day.cnt})
    /\ Computed(AfterSeasons) =>
          \A k \in 1..Len(season_summary) :
              LET row == season_summary[k]
                  hi == First({r \in InSeason(row.season) : r.cnt = row.cnt_max})
                  lo == First({r \in InSeason(row.season) : r.cnt = row.cnt_min})
              IN  /\ <<row.dteday_max, row.hr_max>> = <<hi.dteday, hi.hr>>
                  /\ <<row.dteday_min, row.hr_min>> = <<lo.dteday, lo.hr>>
    /\ Chronological(all_df) => C6_ChronologicallyEarliest

\* C6 witness: a chronological store whose view holds three rows of one
\* season at three different times, the later two sharing the largest cnt
C6_Witness ==
    /\ pc = "done"
    /\ Chronological(all_df)
    /\ Len(main_df) = 3
    /\ Len(season_summary) = 1
    /\ main_df[1].cnt < main_df[2].cnt
    /\ main_df[2].cnt = main_df[3].cnt
    /\ ~NotLater(main_df[3], main_df[2])
    /\ max_day = main_df[2]

\* C7: the Weather Comparison holds a value for (hour h, label w) only if w is
\* "Cerah" or "Berkabut" and the Filtered View has a row of hour h and weather
\* w, the value being the mean of exactly those rows; a pair without such a
\* row has no value, whatever the other label has at hour h.
C7_WeatherCellsObserved ==
    pc = "done" =>
        /\ \A p \in DOMAIN weather_comparison :
              LET obs == {r \in Rows(main_df) : r.hr = p[1] /\ r.weather_label = p[2]}
              IN  /\ p[2] \in {"Cerah", "Berkabut"}
                  /\ weather_comparison[p] # NaNf =>
                        /\ obs # {}
                        /\ weather_comparison[p][2] = Cardinality(obs)
                        /\ weather_comparison[p][1]
                              = SeqSum([k \in 1..Len(main_df) |->
                                          IF main_df[k] \in obs THEN main_df[k].cnt ELSE 0])
                  /\ obs = {} => weather_comparison[p] = NaNf
        /\ \A r \in Rows(main_df) :
              r.weathersit \in {1, 2} =>
                  /\ <<r.hr, r.weather_label>> \in DOMAIN weather_comparison
                  /\ weather_comparison[<<r.hr, r.weather_label>>] # NaNf

\* C7 witness: at one hour the view has a clear row and a rainy row but no
\* misty row, and a misty row at the other hour
C7_Witness ==
    /\ pc = "done"
    /\ \E h \in {0, 1} :
          /\ <<h, "Cerah">> \in DOMAIN weather_comparison
          /\ <<h, "Berkabut">> \in DOMAIN weather_comparison
          /\ weather_comparison[<<h, "Cerah">>] # NaNf
          /\ weather_comparison[<<h, "Berkabut">>] = NaNf
          /\ \E r \in Rows(main_df) : r.hr = h /\ r.weathersit = 3

\* C8: no row is loaded with a missing label: every row of the Record Store
\* has a season label, a weather label and a day-type label (a row with a
\* code outside the tables is refused at load).
C8_NoMissingLabel ==
    \A r \in Rows(all_df) :
        /\ r.season_label \in values(SEASON_LABELS)
        /\ r.weather_label \in values(WEATHER_LABELS)
        /\ r.day_type \in values(DAY_TYPE_LABELS)

\* the hours at which the rows of day type t have their largest mean cnt
PeakHours(t) ==
    LET of_type == {r \in Rows(hourly_pattern) : r.day_type = t}
    IN  {r.hr : r \in {q \in of_type : \A o \in of_type : ~FloatLess(q.cnt, o.cnt)}}

\* C10: a peak-hour highlight is drawn for each day type of the Filtered
\* View, at an hour of the largest Hourly Pattern mean of that day type, and
\* for no day type the view lacks.
C10_PeakPerDayType ==
    Computed(AfterDayTypes) =>
        /\ (\E r \in Rows(main_df) : r.day_type = "Weekday")
              <=> (\E a \in annotations : a.text = "Puncak Weekday")
        /\ (\E r \in Rows(main_df) : r.day_type = "Weekend/Holiday")
              <=> (\E a \in annotations : a.text = "Puncak Weekend")
        /\ \A a \in annotations :
              /\ a.text = "Puncak Weekday" => a.hr \in PeakHours("Weekday")
              /\ a.text = "Puncak Weekend" => a.hr \in PeakHours("Weekend/Holiday")

====
